---- MODULE Spec2Model ----
(***************************************************************************)
(* A model of darm's ARMv7 decoder (armv7.c): the condition registry       *)
(* (armv7_condition_index), the shifter-operand decoder                    *)
(* (armv7_shift_decode) and the instruction decoder (armv7_disassemble,    *)
(* armv7_disas_cond).                                                      *)
(*                                                                         *)
(* A uint32_t is a record [hi, lo] of two 16-bit halves, so that every     *)
(* 32-bit value, the ones above 2^31 included, is represented exactly and  *)
(* shifts truncate at 32 bits as they do in C.                             *)
(***************************************************************************)
EXTENDS Integers, Sequences, FiniteSets

\* ------------------------------------------------------------------------
\* 32-bit unsigned arithmetic
\* ------------------------------------------------------------------------

Pow2(k) == 2 ^ k

B16 == Pow2(16)

U32(hi, lo) == [hi |-> hi, lo |-> lo]

\* The uint32_t of a number below 2^31.
FromNat(n) == U32(n \div B16, n % B16)

\* (x >> k) & ((1 << n) - 1), for n <= 24.
Field(x, k, n) ==
    IF k >= 16
      THEN (x.hi \div Pow2(k - 16)) % Pow2(n)
      ELSE LET keep == IF n + k > 16 THEN n + k - 16 ELSE 0
           IN  ((x.hi % Pow2(keep)) * Pow2(16 - k) + (x.lo \div Pow2(k))) % Pow2(n)

\* a | b on numbers below 2^n.
RECURSIVE OrBits(_, _, _)
OrBits(a, b, n) ==
    IF n = 0 THEN 0
    ELSE (IF a % 2 = 1 \/ b % 2 = 1 THEN 1 ELSE 0)
         + 2 * OrBits(a \div 2, b \div 2, n - 1)

\* a | b on uint32_t.
Or32(a, b) == U32(OrBits(a.hi, b.hi, 16), OrBits(a.lo, b.lo, 16))

\* a << k on uint32_t, the bits shifted past bit 31 lost (k <= 14).
Shl32(a, k) ==
    U32((a.hi * Pow2(k) + (a.lo * Pow2(k)) \div B16) % B16, (a.lo * Pow2(k)) % B16)

\* ------------------------------------------------------------------------
\* Constants and tables
\* ------------------------------------------------------------------------

\* #define BITMSK_12 / BITMSK_24: the widths of the two masks.
BITMSK_12_BITS == 12

BITMSK_24_BITS == 24

\* darm.h: the register index of the program counter (r15).
PC == 15

\* armv7-tbl.h: the instruction label and encoding type of bits 27..20.  The
\* tables are not part of armv7.c; they follow the ARMv7 data-processing,
\* branch and supervisor-call encodings, with the classes the decoder names.
DataProcLabels ==
    << "I_AND", "I_EOR", "I_SUB", "I_RSB", "I_ADD", "I_ADC", "I_SBC", "I_RSC",
       "I_TST", "I_TEQ", "I_CMP", "I_CMN", "I_ORR", "I_MOV", "I_BIC", "I_MVN" >>

armv7_instr_types(i) ==
    LET top == i \div 32
        opc == (i \div 2) % 16
        s   == i % 2
    IN  CASE top = 0 /\ opc \in (0..7) \cup {12, 14} -> "T_ARITH_SHIFT"
          [] top = 0 /\ opc \in 8..11 /\ s = 1 -> "T_CMP_OP"
          [] top = 0 /\ opc = 9 /\ s = 0 -> "T_BRNCHMISC"
          [] top = 0 /\ opc = 13 -> "T_DST_SRC"
          [] top = 1 /\ opc \in (0..7) \cup {12, 14} -> "T_ARITH_IMM"
          [] top = 1 /\ opc \in 8..11 /\ s = 1 -> "T_CMP_IMM"
          [] top = 1 /\ opc \in {8, 10} /\ s = 0 -> "T_MOV_IMM"
          [] top = 1 /\ opc = 9 /\ s = 0 -> "T_OPLESS"
          [] top = 1 /\ opc \in {13, 15} -> "T_MOV_IMM"
          [] top = 5 -> "T_BRNCHSC"
          [] i >= 240 -> "T_BRNCHSC"
          [] OTHER -> "T_INVLD"

armv7_instr_labels(i) ==
    LET top == i \div 32
        opc == (i \div 2) % 16
        s   == i % 2
        t   == armv7_instr_types(i)
    IN  CASE t \in {"T_ARITH_SHIFT", "T_ARITH_IMM", "T_CMP_OP", "T_CMP_IMM"}
               -> DataProcLabels[opc + 1]
          [] t = "T_MOV_IMM" /\ opc = 8 -> "I_MOVW"
          [] t = "T_MOV_IMM" /\ opc = 10 -> "I_MOVT"
          [] t = "T_MOV_IMM" /\ opc \in {13, 15} -> DataProcLabels[opc + 1]
          [] t = "T_BRNCHSC" /\ i >= 240 -> "I_SVC"
          [] t = "T_BRNCHSC" /\ i >= 176 -> "I_BL"
          [] t = "T_BRNCHSC" -> "I_B"
          [] OTHER -> "I_INVLD"

\* armv7-tbl.h: the secondary tables, indexed by bits 7..4 and bits 2..0.
type4_instr_lookup ==
    << "I_MSR", "I_BX", "I_BXJ", "I_BLX", "I_INVLD", "I_QSUB", "I_INVLD", "I_BKPT",
       "I_SMLAW", "I_INVLD", "I_SMULW", "I_INVLD", "I_SMLAW", "I_INVLD", "I_SMULW",
       "I_INVLD" >>

type_opless_instr_lookup ==
    << "I_NOP", "I_YIELD", "I_WFE", "I_WFI", "I_SEV", "I_INVLD", "I_INVLD", "I_INVLD" >>

type_shift_instr_lookup ==
    << "I_LSL", "I_LSL", "I_LSR", "I_LSR", "I_ASR", "I_ASR", "I_ROR", "I_ROR",
       "I_LSL", "I_INVLD", "I_LSR", "I_INVLD", "I_ASR", "I_INVLD", "I_ROR",
       "I_INVLD" >>

\* static const char *shift_types[]
shift_types == << "LSL", "LSR", "ASR", "ROR" >>

\* g_condition_codes[i].mnemonic_extension, the two aliases last.
g_condition_codes ==
    << "EQ", "NE", "CS", "CC", "MI", "PL", "VS", "VC", "HI", "LS", "GE", "LT",
       "GT", "LE", "AL", "HS", "LO" >>

\* ARRAYSIZE(g_condition_codes)
ARRAYSIZE_g_condition_codes == Len(g_condition_codes)

\* ------------------------------------------------------------------------
\* The darm_t record
\* ------------------------------------------------------------------------

\* darm_t after memset(d, 0, sizeof(darm_t)); I_INVLD and T_INVLD are the
\* enumerators of value 0.
darm_zero ==
    [ w |-> U32(0, 0), instr |-> "I_INVLD", instr_type |-> "T_INVLD", cond |-> 0,
      S |-> 0, Rd |-> 0, Rn |-> 0, Rm |-> 0, Rs |-> 0, type |-> 0,
      shift_is_reg |-> 0, shift |-> 0, imm |-> U32(0, 0), add |-> 0 ]

Res(d, ret) == [d |-> d, ret |-> ret]

\* ------------------------------------------------------------------------
\* armv7_disas_cond, one operator per case of its switch
\* ------------------------------------------------------------------------

\* case T_ARITH_SHIFT
disas_ARITH_SHIFT(d, w) ==
    LET d1 == [d EXCEPT !.S = Field(w, 20, 1), !.Rd = Field(w, 12, 4),
                        !.Rn = Field(w, 16, 4), !.Rm = Field(w, 0, 4),
                        !.type = Field(w, 5, 2),
                        !.shift_is_reg = Field(w, 4, 1)]
    IN  IF d1.shift_is_reg # 0
          THEN Res([d1 EXCEPT !.Rs = Field(w, 8, 4)], 0)
          ELSE Res([d1 EXCEPT !.shift = Field(w, 7, 5)], 0)

\* disas_ARITH_IMM without the test of the S bit.
disas_ARITH_IMM_anyS(d, w) ==
    LET d1 == [d EXCEPT !.S = Field(w, 20, 1), !.Rd = Field(w, 12, 4),
                        !.Rn = Field(w, 16, 4),
                        !.imm = FromNat(Field(w, 0, BITMSK_12_BITS))]
    IN  IF d1.instr \in {"I_ADD", "I_SUB"} /\ d1.Rn = PC
          THEN Res([d1 EXCEPT !.instr = "I_ADR", !.Rn = 0,
                              !.add = Field(w, 23, 1)], 0)
          ELSE Res(d1, 0)

\* case T_ARITH_IMM
disas_ARITH_IMM(d, w) ==
    LET d1 == [d EXCEPT !.S = Field(w, 20, 1), !.Rd = Field(w, 12, 4),
                        !.Rn = Field(w, 16, 4),
                        !.imm = FromNat(Field(w, 0, BITMSK_12_BITS))]
    IN  IF d1.instr \in {"I_ADD", "I_SUB"} /\ d1.S = 0 /\ d1.Rn = PC
          THEN Res([d1 EXCEPT !.instr = "I_ADR", !.Rn = 0,
                              !.add = Field(w, 23, 1)], 0)
          ELSE Res(d1, 0)

\* disas_BRNCHSC without the sign extension.
disas_BRNCHSC_nosext(d, w) ==
    LET d1 == [d EXCEPT !.imm = FromNat(Field(w, 0, BITMSK_24_BITS))]
    IN  IF d1.instr # "I_SVC"
          THEN Res([d1 EXCEPT !.imm = Shl32(d1.imm, 2)], 0)
          ELSE Res(d1, 0)

\* case T_BRNCHSC
disas_BRNCHSC(d, w) ==
    LET d1 == [d EXCEPT !.imm = FromNat(Field(w, 0, BITMSK_24_BITS))]
    IN  IF d1.instr # "I_SVC"
          THEN IF Field(d1.imm, 23, 1) = 1
                 THEN Res([d1 EXCEPT !.imm = Shl32(Or32(d1.imm, U32(65280, 0)), 2)], 0)
                 ELSE Res([d1 EXCEPT !.imm = Shl32(d1.imm, 2)], 0)
          ELSE Res(d1, 0)

\* case T_BRNCHMISC
disas_BRNCHMISC(d, w) ==
    LET d1 == [d EXCEPT !.instr = type4_instr_lookup[Field(w, 4, 4) + 1]]
    IN  CASE d1.instr = "I_BKPT" ->
               Res([d1 EXCEPT !.imm =
                      FromNat(Field(w, 8, BITMSK_12_BITS) * 16 + Field(w, 0, 4))], 0)
          [] d1.instr \in {"I_BX", "I_BXJ", "I_BLX"} ->
               Res([d1 EXCEPT !.Rm = Field(w, 0, 4)], 0)
          [] d1.instr = "I_MSR" ->
               Res([d1 EXCEPT !.Rn = Field(w, 0, 4),
                              !.imm = FromNat(Field(w, 18, 2))], 0)
          [] OTHER -> Res(d1, -1)

\* case T_MOV_IMM
disas_MOV_IMM(d, w) ==
    LET d1 == [d EXCEPT !.Rd = Field(w, 12, 4),
                        !.imm = FromNat(Field(w, 0, BITMSK_12_BITS))]
    IN  IF d1.instr \in {"I_MOV", "I_MVN"}
          THEN Res([d1 EXCEPT !.S = Field(w, 20, 1)], 0)
          ELSE Res([d1 EXCEPT !.imm =
                      Or32(d1.imm, FromNat(Field(w, 16, 4) * Pow2(12)))], 0)

\* case T_CMP_OP
disas_CMP_OP(d, w) ==
    LET d1 == [d EXCEPT !.Rn = Field(w, 16, 4), !.Rm = Field(w, 0, 4),
                        !.type = Field(w, 5, 2),
                        !.shift_is_reg = Field(w, 4, 1)]
    IN  IF d1.shift_is_reg # 0
          THEN Res([d1 EXCEPT !.Rs = Field(w, 8, 4)], 0)
          ELSE Res([d1 EXCEPT !.shift = Field(w, 7, 5)], 0)

\* case T_CMP_IMM
disas_CMP_IMM(d, w) ==
    Res([d EXCEPT !.Rn = Field(w, 16, 4),
                  !.imm = FromNat(Field(w, 0, BITMSK_12_BITS))], 0)

\* case T_OPLESS
disas_OPLESS(d, w) ==
    LET d1 == [d EXCEPT !.instr = type_opless_instr_lookup[Field(w, 0, 3) + 1]]
    IN  Res(d1, IF d1.instr = "I_INVLD" THEN -1 ELSE 0)

\* dst_src_imm without the rewrite of MOV Rd, Rd to NOP.
dst_src_imm_nonop(d, w) ==
    LET d1 == [d EXCEPT !.Rm = Field(w, 0, 4), !.shift = Field(w, 7, 5)]
    IN  IF d1.instr = "I_LSL" /\ d1.type = 0 /\ d1.shift = 0
          THEN [d1 EXCEPT !.instr = "I_MOV"]
          ELSE IF d1.instr = "I_ROR" /\ d1.type = 3 /\ d1.shift = 0
                 THEN [d1 EXCEPT !.instr = "I_RRX"]
                 ELSE d1

\* The immediate-shift branch of case T_DST_SRC, with its alias rewrites.
dst_src_imm(d, w) ==
    LET d1 == [d EXCEPT !.Rm = Field(w, 0, 4), !.shift = Field(w, 7, 5)]
    IN  IF d1.instr = "I_LSL" /\ d1.type = 0 /\ d1.shift = 0
          THEN IF d1.Rd = d1.Rm
                 THEN [d1 EXCEPT !.instr = "I_NOP"]
                 ELSE [d1 EXCEPT !.instr = "I_MOV"]
          ELSE IF d1.instr = "I_ROR" /\ d1.type = 3 /\ d1.shift = 0
                 THEN [d1 EXCEPT !.instr = "I_RRX"]
                 ELSE d1

\* dst_src_reg with the shift register in Rs and the operand in Rm.
dst_src_reg_swapped(d, w) ==
    [d EXCEPT !.Rs = Field(w, 8, 4), !.Rm = Field(w, 0, 4)]

\* The register-shift branch of case T_DST_SRC.
dst_src_reg(d, w) ==
    [d EXCEPT !.Rm = Field(w, 8, 4), !.Rn = Field(w, 0, 4)]

\* disas_DST_SRC with the fields extracted before the sub-table test.
disas_DST_SRC_early(d, w) ==
    LET d1 == [d EXCEPT !.instr = type_shift_instr_lookup[Field(w, 4, 4) + 1],
                        !.S = Field(w, 20, 1), !.Rd = Field(w, 12, 4),
                        !.type = Field(w, 5, 2)]
    IN  IF d1.instr # "I_INVLD"
          THEN IF Field(w, 4, 1) # 0
                 THEN Res(dst_src_reg(d1, w), 0)
                 ELSE Res(dst_src_imm(d1, w), 0)
          ELSE Res(d1, -1)

\* case T_DST_SRC
disas_DST_SRC(d, w) ==
    LET d1 == [d EXCEPT !.instr = type_shift_instr_lookup[Field(w, 4, 4) + 1]]
    IN  IF d1.instr # "I_INVLD"
          THEN LET d2 == [d1 EXCEPT !.S = Field(w, 20, 1), !.Rd = Field(w, 12, 4),
                                    !.type = Field(w, 5, 2)]
               IN  IF Field(w, 4, 1) # 0
                     THEN Res(dst_src_reg(d2, w), 0)
                     ELSE Res(dst_src_imm(d2, w), 0)
          ELSE Res(d1, -1)

\* static int armv7_disas_cond(darm_t *d, uint32_t w)
armv7_disas_cond(d, w) ==
    LET idx == Field(w, 20, 8)
        d1  == [d EXCEPT !.instr = armv7_instr_labels(idx),
                         !.instr_type = armv7_instr_types(idx)]
        t   == d1.instr_type
    IN  CASE t = "T_INVLD"       -> Res(d1, -1)
          [] t = "T_ARITH_SHIFT" -> disas_ARITH_SHIFT(d1, w)
          [] t = "T_ARITH_IMM"   -> disas_ARITH_IMM(d1, w)
          [] t = "T_BRNCHSC"     -> disas_BRNCHSC(d1, w)
          [] t = "T_BRNCHMISC"   -> disas_BRNCHMISC(d1, w)
          [] t = "T_MOV_IMM"     -> disas_MOV_IMM(d1, w)
          [] t = "T_CMP_OP"      -> disas_CMP_OP(d1, w)
          [] t = "T_CMP_IMM"     -> disas_CMP_IMM(d1, w)
          [] t = "T_OPLESS"      -> disas_OPLESS(d1, w)
          [] t = "T_DST_SRC"     -> disas_DST_SRC(d1, w)
          [] OTHER               -> Res(d1, -1)

\* armv7_disassemble without its memset.
memset_skipped(d) == d

\* memset(d, 0, sizeof(darm_t))
memset(d) == darm_zero

\* armv7_disassemble without the test of the unconditional form.
armv7_disassemble_uncond(d, w) ==
    LET d0 == memset(d)
        d1 == [d0 EXCEPT !.cond = Field(w, 28, 4), !.w = w]
        r  == armv7_disas_cond(d1, w)
    IN  IF r.ret < 0 THEN r ELSE Res(r.d, 0)

\* int armv7_disassemble(darm_t *d, uint32_t w)
armv7_disassemble(d, w) ==
    LET d0 == memset(d)
        d1 == [d0 EXCEPT !.cond = Field(w, 28, 4), !.w = w]
        r  == IF d1.cond = 15 THEN Res(d1, -1) ELSE armv7_disas_cond(d1, w)
    IN  IF r.ret < 0 THEN r ELSE Res(r.d, 0)

\* armv7_shift_decode with the zero-means-32 rule applied to ROR as well.
armv7_shift_decode_ror32(d) ==
    IF d.type = 0 /\ d.Rs = 0
      THEN [type |-> "NULL", immediate |-> 0]
      ELSE [type |-> shift_types[d.type + 1],
            immediate |-> IF d.type \in {1, 2, 3} /\ d.Rs = 0 THEN 32 ELSE d.Rs]

\* void armv7_shift_decode(darm_t *d, const char **type, uint32_t *immediate);
\* the result is the pair written through the two out-parameters.
armv7_shift_decode(d) ==
    IF d.type = 0 /\ d.Rs = 0
      THEN [type |-> "NULL", immediate |-> 0]
      ELSE IF d.type = 3 /\ d.Rs = 0
        THEN [type |-> "RRX", immediate |-> 0]
        ELSE [type |-> shift_types[d.type + 1],
              immediate |-> IF d.type \in {1, 2} /\ d.Rs = 0 THEN 32 ELSE d.Rs]

\* The loop of armv7_condition_index from entry i on: the index of the first
\* entry whose mnemonic strcmp finds equal, -1 when the loop ends.
RECURSIVE condition_scan(_, _)
condition_scan(code, i) ==
    IF i >= ARRAYSIZE_g_condition_codes THEN -1
    ELSE IF code = g_condition_codes[i + 1] THEN i
    ELSE condition_scan(code, i + 1)

\* int armv7_condition_index(const char *condition_code); p is the pointer,
\* [null |-> TRUE] or [null |-> FALSE, s |-> the string].
armv7_condition_index(p) ==
    IF p.null THEN -1
    ELSE IF p.s = "" THEN 14
    ELSE condition_scan(p.s, 0)

\* ------------------------------------------------------------------------
\* Inputs
\* ------------------------------------------------------------------------

\* Register numbers tried: 0..MaxReg and the program counter.
MaxReg == 1

\* 12-bit immediates tried: 0..MaxImm and the all-ones value.
MaxImm == 1

\* Immediate shift amounts tried by the decoder: 0..MaxShift, 30 and 31.
MaxShift == 1

\* Values of d->Rs handed to armv7_shift_decode on its own: 0..MaxAmount.
MaxAmount == 31

Regs == (0..MaxReg) \cup {PC}

Imm12s == (0..MaxImm) \cup {4095}

Amounts == (0..MaxShift) \cup {30, 31}

\* The word with condition c, bits 27..20 idx, bits 19..16 r16, bits 15..12 r12
\* and bits 11..0 lo12.
Word(c, idx, r16, r12, lo12) == U32(c * 4096 + idx * 16 + r16, r12 * 4096 + lo12)

\* Bits 11..0 of a shifter operand: amount, type, register-shift bit, Rm.
Shifter(amount, type, b4, rm) == amount * 128 + type * 32 + b4 * 16 + rm

\* ADD, ADDS and CMP with a shifted register.
ShiftWords ==
    { Word(14, idx, 1, 2, Shifter(a, t, b, 3)) :
        idx \in {8, 9, 21}, a \in Amounts, t \in 0..3, b \in {0, 1} }

\* AND, SUB, SUBS, ADD and ADDS with an immediate.
ArithImmWords ==
    { Word(c, idx, rn, 2, i) :
        c \in {0, 14}, idx \in {32, 36, 37, 40, 41}, rn \in {0, PC}, i \in Imm12s }

\* B, BL and SVC; bits 23..20 of the immediate are the low bits of idx.
BranchWords ==
    { Word(14, idx, r16, r12, i) :
        idx \in {160, 167, 168, 175, 184, 240, 248},
        r16 \in {0, 15}, r12 \in {0, 15}, i \in {0, 4095} }

\* The branch-and-exchange/miscellaneous class, every bits 7..4.
MiscWords ==
    { Word(14, 18, r16, 0, 5 * 256 + b * 16 + 3) : r16 \in {0, 15}, b \in 0..15 }

\* MOVW, MOVT, MOV, MOVS and MVN with an immediate.
MovImmWords ==
    { Word(14, idx, r16, 2, i) :
        idx \in {48, 52, 58, 59, 62}, r16 \in {0, 15}, i \in Imm12s }

\* CMP with an immediate.
CmpImmWords == { Word(14, 53, rn, 0, i) : rn \in Regs, i \in Imm12s }

\* The no-operand class, every bits 2..0.
OplessWords == { Word(14, 50, 0, r12, b) : r12 \in {0, 15}, b \in 0..7 }

\* The destination-source-shift class (MOV/LSL/LSR/ASR/ROR, and the words of
\* other instructions that share bits 27..20 with them).
DstSrcWords ==
    { Word(14, idx, 0, rd, Shifter(a, t, b, rm)) :
        idx \in {26, 27}, rd \in 0..MaxReg, a \in Amounts, t \in 0..3,
        b \in {0, 1}, rm \in 0..MaxReg }

\* Words of classes the tables mark invalid.
InvalidWords == { Word(14, idx, r, r, i) : idx \in {16, 30, 64}, r \in {0, 15}, i \in {0, 4095} }

\* Words of the unconditional form (condition 15).
UncondWords ==
    { Word(15, idx, r16, 2, i) :
        idx \in {8, 18, 26, 40, 50, 64, 168}, r16 \in {0, 15}, i \in {0, 4095} }

Words ==
    ShiftWords \cup ArithImmWords \cup BranchWords \cup MiscWords \cup MovImmWords
    \cup CmpImmWords \cup OplessWords \cup DstSrcWords \cup InvalidWords
    \cup UncondWords

\* Condition-code texts tried: every text of at most two of these letters.
Letters == { "A", "C", "E", "G", "H", "I", "L", "M", "N", "O", "P", "Q", "S", "T", "V", "e", "q" }

CondTexts == {""} \cup Letters \cup { a \o b : a \in Letters, b \in Letters }

NullPtr == [null |-> TRUE]

Ptr(s) == [null |-> FALSE, s |-> s]

CondPointers == {NullPtr} \cup { Ptr(s) : s \in CondTexts }

\* ------------------------------------------------------------------------
\* State
\* ------------------------------------------------------------------------

VARIABLES
    d,      \* the caller's darm_t
    ret,    \* the value the last armv7_disassemble returned
    arg,    \* the word handed to the last armv7_disassemble
    op,     \* the last operation called
    dirty,  \* whether the last armv7_disassemble was handed a record that
            \* an earlier call had written
    sh,     \* what the last armv7_shift_decode wrote to *type and *immediate
    ci      \* the argument and the result of the last armv7_condition_index

vars == << d, ret, arg, op, dirty, sh, ci >>

Init ==
    /\ d = darm_zero
    /\ ret = 0
    /\ arg = U32(0, 0)
    /\ op = "none"
    /\ dirty = FALSE
    /\ sh = [type |-> "NULL", immediate |-> 0]
    /\ ci = [code |-> NullPtr, ret |-> 0]

\* ret = armv7_disassemble(&d, w)
Disassemble(w) ==
    LET r == armv7_disassemble(d, w)
    IN  /\ d' = r.d
        /\ ret' = r.ret
        /\ arg' = w
        /\ op' = "disassemble"
        /\ dirty' = (d # darm_zero)
        /\ UNCHANGED << sh, ci >>

\* armv7_shift_decode(&d, &type, &immediate)
ShiftDecode ==
    /\ sh' = armv7_shift_decode(d)
    /\ op' = "shift_decode"
    /\ UNCHANGED << d, ret, arg, dirty, ci >>

\* armv7_condition_index(p)
ConditionIndex(p) ==
    /\ ci' = [code |-> p, ret |-> armv7_condition_index(p)]
    /\ op' = "condition_index"
    /\ UNCHANGED << d, ret, arg, dirty, sh >>

\* The decoder: any sequence of armv7_disassemble calls on one record.
Next == \E w \in Words : Disassemble(w)

Spec == Init /\ [][Next]_vars

\* The decoder followed by the shifter-operand decoder on the decoded record.
NextShiftRec ==
    \/ \E w \in ShiftWords : Disassemble(w)
    \/ ShiftDecode

SpecShiftRec == Init /\ [][NextShiftRec]_vars

\* The shifter-operand decoder on its own, on any shift type and any d->Rs.
InitShift ==
    /\ \E t \in 0..3, a \in 0..MaxAmount : d = [darm_zero EXCEPT !.type = t, !.Rs = a]
    /\ ret = 0
    /\ arg = U32(0, 0)
    /\ op = "none"
    /\ dirty = FALSE
    /\ sh = [type |-> "NULL", immediate |-> 0]
    /\ ci = [code |-> NullPtr, ret |-> 0]

NextShift == ShiftDecode

SpecShift == InitShift /\ [][NextShift]_vars

\* The condition registry.
NextCond == \E p \in CondPointers : ConditionIndex(p)

SpecCond == Init /\ [][NextCond]_vars

\* ------------------------------------------------------------------------
\* Properties
\* ------------------------------------------------------------------------

\* The last call was armv7_disassemble.
Decoded == op = "disassemble"

\* The fields of the word of the last armv7_disassemble.
WCond == Field(arg, 28, 4)

WIndex == Field(arg, 20, 8)

\* The last armv7_disassemble was of a word of condition other than 15 whose
\* bits 27..20 the tables give the encoding type t.
DecodedClass(t) == Decoded /\ WCond # 15 /\ armv7_instr_types(WIndex) = t

\* A uint32_t read as a signed 32-bit number.
Signed32(x) ==
    IF x.hi >= 32768 THEN (x.hi - B16) * B16 + x.lo ELSE x.hi * B16 + x.lo

\* The operand fields of a record are all at their zero default.
NoOperand(r) ==
    /\ r.S = 0 /\ r.Rd = 0 /\ r.Rn = 0 /\ r.Rm = 0 /\ r.Rs = 0 /\ r.type = 0
    /\ r.shift_is_reg = 0 /\ r.shift = 0 /\ r.imm = U32(0, 0) /\ r.add = 0

\* C1: armv7_disassemble fails on every word whose bits 31..28 are 15, and
\* every record it reports success for has its condition in 0..14.
C1_UnconditionalFails ==
    Decoded => /\ (WCond = 15 => ret = -1)
               /\ (ret = 0 => d.cond \in 0..14)

C1_Witness ==
    /\ Decoded /\ WCond = 15 /\ ret = -1
    /\ armv7_instr_types(WIndex) = "T_ARITH_IMM" /\ Field(arg, 0, 12) = 4095

C5_ArithImmAdr ==
    DecodedClass("T_ARITH_IMM") =>
        /\ ret = 0
        /\ d.Rd = Field(arg, 12, 4)
        /\ d.imm = U32(0, Field(arg, 0, 12))
        /\ IF /\ armv7_instr_labels(WIndex) \in {"I_ADD", "I_SUB"}
              /\ Field(arg, 20, 1) = 0
              /\ Field(arg, 16, 4) = 15
             THEN d.instr = "I_ADR" /\ d.Rn = 0 /\ d.add = Field(arg, 23, 1)
             ELSE /\ d.instr = armv7_instr_labels(WIndex)
                  /\ d.Rn = Field(arg, 16, 4)
                  /\ d.add = 0

C5_Witness ==
    /\ DecodedClass("T_ARITH_IMM") /\ armv7_instr_labels(WIndex) = "I_ADD"
    /\ d.instr = "I_ADR" /\ d.add = 1 /\ d.Rn = 0 /\ d.imm = U32(0, 4095)

\* C6: a word of the branch class decodes, when its label is not SVC, with imm
\* = bits 23..0 sign-extended from bit 23 and multiplied by 4 modulo 2^32
\* (negative as a signed 32-bit number exactly when bit 23 is set, bits 23..0
\* times 4 when it is clear), and with imm = bits 23..0 when the label is SVC.
C6_BranchImmediate ==
    DecodedClass("T_BRNCHSC") =>
        LET f == Field(arg, 0, 24)
        IN  /\ ret = 0
            /\ d.instr = armv7_instr_labels(WIndex)
            /\ d.imm.hi \in 0..(B16 - 1) /\ d.imm.lo \in 0..(B16 - 1)
            /\ IF d.instr # "I_SVC"
                 THEN /\ Signed32(d.imm) =
                           (IF f >= Pow2(23) THEN f - Pow2(24) ELSE f) * 4
                      /\ (Signed32(d.imm) < 0) <=> (Field(arg, 23, 1) = 1)
                      /\ Field(arg, 23, 1) = 0 =>
                           d.imm = U32((f * 4) \div B16, (f * 4) % B16)
                 ELSE Signed32(d.imm) = f

C6_Witness ==
    /\ DecodedClass("T_BRNCHSC") /\ d.instr = "I_B" /\ Field(arg, 23, 1) = 1
    /\ Signed32(d.imm) = -4

\* C7: a word of the destination-source-shift class with bit 4 clear and a
\* valid sub-table label decodes to MOV (NOP when Rd = Rm) when the label is
\* LSL with type 0 and amount 0, to RRX when the label is ROR with type 3 and
\* amount 0, and to the sub-table label otherwise; with bit 4 set the label is
\* the sub-table label.
C7_DstSrcAliases ==
    LET sub == type_shift_instr_lookup[Field(arg, 4, 4) + 1]
    IN  (DecodedClass("T_DST_SRC") /\ sub # "I_INVLD") =>
            /\ ret = 0
            /\ IF Field(arg, 4, 1) = 0
                 THEN IF sub = "I_LSL" /\ Field(arg, 5, 2) = 0 /\ Field(arg, 7, 5) = 0
                        THEN d.instr = (IF d.Rd = d.Rm THEN "I_NOP" ELSE "I_MOV")
                        ELSE IF sub = "I_ROR" /\ Field(arg, 5, 2) = 3
                                /\ Field(arg, 7, 5) = 0
                               THEN d.instr = "I_RRX"
                               ELSE d.instr = sub
                 ELSE d.instr = sub

C7_Witness ==
    /\ DecodedClass("T_DST_SRC") /\ ret = 0 /\ Field(arg, 4, 1) = 0
    /\ d.instr = "I_NOP" /\ d.Rd = 1 /\ d.Rm = 1

\* C8: the outcome of every armv7_disassemble call on a reused record (its
\* return value and every field of the record) is the outcome of decoding the
\* call's word into a zeroed record.
C8_DecodeIsPure == Decoded => Res(d, ret) = armv7_disassemble(darm_zero, arg)

C8_Witness ==
    /\ Decoded /\ dirty /\ ret = 0 /\ d.instr = "I_NOP" /\ d.instr_type = "T_OPLESS"
    /\ NoOperand(d)

\* C9, as claimed: a register-shift word of the destination-source-shift class
\* decodes with S = bit 20, Rd = bits 15..12, type = bits 6..5, Rs = bits 11..8
\* and Rm = bits 3..0, Rn left at zero.
C9_RegShiftInRs ==
    LET sub == type_shift_instr_lookup[Field(arg, 4, 4) + 1]
    IN  (DecodedClass("T_DST_SRC") /\ sub # "I_INVLD" /\ Field(arg, 4, 1) = 1) =>
            /\ d.S = Field(arg, 20, 1)
            /\ d.Rd = Field(arg, 12, 4)
            /\ d.type = Field(arg, 5, 2)
            /\ d.Rs = Field(arg, 8, 4)
            /\ d.Rm = Field(arg, 0, 4)
            /\ d.Rn = 0

\* C9, amended: such a word decodes with S = bit 20, Rd = bits 15..12, type =
\* bits 6..5, Rm = bits 11..8 (the register holding the shift amount) and Rn =
\* bits 3..0 (the register shifted), Rs and shift left at zero.
C9_RegShiftInRm ==
    LET sub == type_shift_instr_lookup[Field(arg, 4, 4) + 1]
    IN  (DecodedClass("T_DST_SRC") /\ sub # "I_INVLD" /\ Field(arg, 4, 1) = 1) =>
            /\ ret = 0
            /\ d.S = Field(arg, 20, 1)
            /\ d.Rd = Field(arg, 12, 4)
            /\ d.type = Field(arg, 5, 2)
            /\ d.Rm = Field(arg, 8, 4)
            /\ d.Rn = Field(arg, 0, 4)
            /\ d.Rs = 0
            /\ d.shift = 0

C9_Witness ==
    /\ DecodedClass("T_DST_SRC") /\ ret = 0 /\ Field(arg, 4, 1) = 1
    /\ d.Rm = 15 /\ d.Rn = 1 /\ d.S = 1 /\ d.instr = "I_ROR"

\* C4: armv7_shift_decode gives no shift for type 0 with amount 0, RRX with
\* amount 0 for type 3 with amount 0, LSR or ASR with amount 32 for type 1 or
\* 2 with amount 0, and the label of the type with the amount as it is in
\* every other case.
C4_ShiftDecode ==
    op = "shift_decode" =>
        LET t == d.type
            a == d.Rs
            label == CASE t = 0 -> "LSL" [] t = 1 -> "LSR" [] t = 2 -> "ASR"
                       [] t = 3 -> "ROR"
        IN  CASE t = 0 /\ a = 0 -> sh = [type |-> "NULL", immediate |-> 0]
              [] t = 3 /\ a = 0 -> sh = [type |-> "RRX", immediate |-> 0]
              [] t \in {1, 2} /\ a = 0 -> sh = [type |-> label, immediate |-> 32]
              [] OTHER -> sh = [type |-> label, immediate |-> a]

C4_Witness ==
    /\ op = "shift_decode" /\ d.type = 3 /\ d.Rs = 5
    /\ sh = [type |-> "ROR", immediate |-> 5]

\* C10: on the record of a successfully decoded arithmetic-with-shift or
\* compare-with-register word with shift_is_reg = 0, armv7_shift_decode gives
\* the label of the type with the amount d.shift when d.shift is not 0, and
\* gives RRX, no shift or the amount 32 only when d.shift is 0.
C10_ShiftDecodeOfRecord ==
    ( /\ op = "shift_decode" /\ ret = 0
      /\ d.instr_type \in {"T_ARITH_SHIFT", "T_CMP_OP"}
      /\ d.shift_is_reg = 0 ) =>
        /\ d.shift # 0 =>
             sh = [type |-> shift_types[d.type + 1], immediate |-> d.shift]
        /\ (sh.type \in {"RRX", "NULL"} \/ sh.immediate = 32) => d.shift = 0

\* The canonical 4-bit field value of a condition mnemonic.
FieldValue(s) == CHOOSE k \in 0..14 : g_condition_codes[k + 1] = s

\* C3: armv7_condition_index gives 14 for the empty string, for HS what it
\* gives for CS (2), for LO what it gives for CC (3), for each canonical
\* mnemonic its field value, -1 for a text that matches no entry, and so a
\* value in 0..14 whenever it finds the text.
C3_ConditionIndex ==
    (op = "condition_index" /\ ~ci.code.null) =>
        LET s == ci.code.s
            known == \E k \in 1..Len(g_condition_codes) : g_condition_codes[k] = s
        IN  /\ s = "" => ci.ret = 14
            /\ s = "HS" => ci.ret = FieldValue("CS")
            /\ s = "LO" => ci.ret = FieldValue("CC")
            /\ (\E k \in 0..14 : g_condition_codes[k + 1] = s) => ci.ret = FieldValue(s)
            /\ (s # "" /\ ~known) => ci.ret = -1
            /\ ci.ret # -1 => ci.ret \in 0..14

====
